---- MODULE Spec2Model ----
(***************************************************************************)
(* A model of examples/cpp-project: the class User as its two header      *)
(* variants declare it (include/User.h, src/User.h), as User.cpp defines  *)
(* it, and as main.cpp uses it.                                           *)
(*                                                                         *)
(* Three specifications share the module:                                 *)
(*   SpecDecl  the translation of User.cpp and main.cpp, each against one *)
(*             of the two headers: every include is resolved, every       *)
(*             definition is matched against its declaration, every name  *)
(*             is looked up, every constructor call is resolved;          *)
(*             diagnostics are collected.  main.cpp includes Database.h,  *)
(*             a file the sources do not hold: its translation ends at    *)
(*             that line unless the build supplies the file.              *)
(*   SpecUser  the operations of User (User.cpp) applied by an arbitrary  *)
(*             client to a bounded pool of objects and a vector<User>.    *)
(*   Spec      the execution of main() (main.cpp), statement by statement.*)
(* SpecUser and Spec run in one of the builds: every file against         *)
(* include/User.h, every file against src/User.h, or main.cpp (the        *)
(* client) against src/User.h and User.cpp against include/User.h.        *)
(***************************************************************************)
EXTENDS Integers, Sequences, FiniteSets, TLC

VARIABLES
    \* SpecDecl
    hdr,        \* the header main.cpp (the client) is compiled against
    cppHdr,     \* the header User.cpp is compiled against
    dbHdr,      \* what #include "Database.h" finds
    posCpp,     \* number of items of User.cpp translated so far
    posMain,    \* number of items of main.cpp translated so far
    diags,      \* the diagnostics issued so far
    \* SpecUser
    objs,       \* the User objects the client holds
    vec,        \* the client's std::vector<User>
    last,       \* the last operation applied, with its operands
    ops,        \* number of operations the client has applied
    \* Spec
    pc,         \* the statement of main() about to run
    user1,      \* main's local user1
    user2,      \* main's local user2
    users,      \* main's local std::vector<User> users
    loopI,      \* the range-for loop's position in users
    heap,       \* the free store: the objects allocated by new
    userPtr,    \* the address main's unique_ptr holds (0: null)
    out         \* what main wrote to std::cout / std::cerr

declVars == <<hdr, cppHdr, dbHdr, posCpp, posMain, diags>>
userVars == <<objs, vec, last, ops>>
mainVars == <<pc, user1, user2, users, loopI, heap, userPtr, out>>
vars == <<hdr, cppHdr, dbHdr, posCpp, posMain, diags, objs, vec, last, ops,
          pc, user1, user2, users, loopI, heap, userPtr, out>>

(***************************************************************************)
(* The declarations of class User.                                        *)
(***************************************************************************)
IncludeHeader == "include/User.h"
SrcHeader == "src/User.h"
Headers == {IncludeHeader, SrcHeader}

StringRef == "const std::string&"
UserRef == "const User&"
Ctor4Params == <<StringRef, StringRef, "int", StringRef>>

\* A member function: its name, parameter types, return type ("" for a
\* constructor or destructor) and whether it is const-qualified.
Method(name, params, ret, isConst) ==
    [name |-> name, params |-> params, ret |-> ret, isConst |-> isConst]

\* include/User.h, had it declared firstName as a pointer to a string.
IncludeFieldsPointerName ==
    { [name |-> "firstName", type |-> "std::string*"],
      [name |-> "lastName",  type |-> "std::string"],
      [name |-> "age",       type |-> "int"],
      [name |-> "email",     type |-> "std::string"] }

IncludeFields ==
    { [name |-> "firstName", type |-> "std::string"],
      [name |-> "lastName",  type |-> "std::string"],
      [name |-> "age",       type |-> "int"],
      [name |-> "email",     type |-> "std::string"] }

\* src/User.h, had it declared the member id.
SrcFieldsWithId ==
    { [name |-> "firstName", type |-> "std::string"],
      [name |-> "lastName",  type |-> "std::string"],
      [name |-> "age",       type |-> "int"],
      [name |-> "email",     type |-> "std::string"],
      [name |-> "id",        type |-> "int"] }

SrcFields ==
    { [name |-> "firstName", type |-> "std::string"],
      [name |-> "lastName",  type |-> "std::string"],
      [name |-> "age",       type |-> "int"],
      [name |-> "email",     type |-> "std::string"] }

\* include/User.h, had it declared setAge with the parameter type of the
\* definition.
IncludeMethodsSetAgeInt ==
    { Method("User", Ctor4Params, "", FALSE),
      Method("User", <<UserRef>>, "", FALSE),
      Method("~User", <<>>, "", FALSE),
      Method("getName", <<>>, "std::string", TRUE),
      Method("getEmail", <<>>, "std::string", TRUE),
      Method("getAge", <<>>, "int", TRUE),
      Method("setAge", <<"int">>, "void", FALSE),
      Method("getFullName", <<>>, "std::string", FALSE),
      Method("createDefaultUser", <<>>, "User", FALSE) }

IncludeMethods ==
    { Method("User", Ctor4Params, "", FALSE),
      Method("User", <<UserRef>>, "", FALSE),
      Method("~User", <<>>, "", FALSE),
      Method("getName", <<>>, "std::string", TRUE),
      Method("getEmail", <<>>, "std::string", TRUE),
      Method("getAge", <<>>, "int", TRUE),
      Method("setAge", <<"float">>, "void", FALSE),
      Method("getFullName", <<>>, "std::string", FALSE),
      Method("createDefaultUser", <<>>, "User", FALSE) }

\* src/User.h, had it declared getFullName.
SrcMethodsWithGetFullName ==
    { Method("User", Ctor4Params, "", FALSE),
      Method("getName", <<>>, "std::string", TRUE),
      Method("getFullName", <<>>, "std::string", TRUE) }

SrcMethods ==
    { Method("User", Ctor4Params, "", FALSE),
      Method("getName", <<>>, "std::string", TRUE) }

Fields(h) == IF h = IncludeHeader THEN IncludeFields ELSE SrcFields
Methods(h) == IF h = IncludeHeader THEN IncludeMethods ELSE SrcMethods

UserRvalueRef == "User&&"
CopyConstructor == Method("User", <<UserRef>>, "", FALSE)
MoveConstructor == Method("User", <<UserRvalueRef>>, "", FALSE)
Destructor == Method("~User", <<>>, "", FALSE)
CopyAssignment == Method("operator=", <<UserRef>>, "User&", FALSE)
MoveAssignment == Method("operator=", <<UserRvalueRef>>, "User&", FALSE)

\* The copy constructor, the copy assignment operator and the destructor are
\* declared implicitly by the language in a class that does not declare them
\* itself, and the move constructor and move assignment operator in a class
\* that declares none of the five.
ImplicitMethods(h) ==
    LET own == {CopyConstructor, CopyAssignment, Destructor}
    IN  { m \in own : m \notin Methods(h) }
          \cup (IF \A m \in own \cup {MoveConstructor, MoveAssignment} :
                      m \notin Methods(h)
                THEN {MoveConstructor, MoveAssignment} ELSE {})

\* What #include "Database.h" finds.  The sources hold no such file; a build
\* can supply one on its include path, declaring class Database with or
\* without the member initialize that main calls.
NoDatabase == [found |-> FALSE, members |-> {}]
Database(members) == [found |-> TRUE, members |-> members]
DatabaseHeaders == { NoDatabase, Database({}), Database({"initialize"}) }

FieldNames(h) == { f.name : f \in Fields(h) }
MethodNames(h) == { m.name : m \in Methods(h) }

\* Member name lookup in class User as header h declares it.
Declared(h, name) == name \in FieldNames(h) \cup MethodNames(h)

IsPointerType(t) == Len(t) > 0 /\ SubSeq(t, Len(t), Len(t)) = "*"

FieldType(h, name) == (CHOOSE f \in Fields(h) : f.name = name).type

(***************************************************************************)
(* The two translation units, as the items the translation meets in       *)
(* source order: include directives, member function definitions, uses of *)
(* a name, initializations and constructor calls.                         *)
(***************************************************************************)
\* An #include directive.
Include(line, name) == [kind |-> "include", line |-> line, name |-> name]
Def(line, m) == [kind |-> "definition", line |-> line, method |-> m]
\* how: "init" (member initializer), "read", "write", "call", "delete";
\* marked: the source comments the use as an access to an undefined member;
\* onConst: the object expression is const-qualified.
Use(line, name, how, marked, onConst) ==
    [kind |-> "use", line |-> line, name |-> name, how |-> how,
     marked |-> marked, onConst |-> onConst]
Construct(line, what, args) ==
    [kind |-> "construct", line |-> line, name |-> what, args |-> args]
\* A use of a name that is no member: it is looked up in the enclosing scopes.
Identifier(line, name) == [kind |-> "identifier", line |-> line, name |-> name]
\* A call of a member of class Database on main's local db.
DatabaseUse(line, name) ==
    [kind |-> "database-use", line |-> line, name |-> name]
\* A variable of type to, copy-initialized from a value of type from.
CopyInit(line, name, to, from) ==
    [kind |-> "copy-init", line |-> line, name |-> name, to |-> to, from |-> from]

Literal == "const char[]"
FourArgs == <<Literal, Literal, "int", Literal>>

CppFile == "src/User.cpp"
MainFile == "src/main.cpp"

CppItems ==
    << Include(1, "User.h"),
       Include(2, "<sstream>"),
       Def(4, Method("User", Ctor4Params, "", FALSE)),
       Use(5, "firstName", "init", FALSE, FALSE),
       Use(5, "lastName", "init", FALSE, FALSE),
       Use(5, "age", "init", FALSE, FALSE),
       Use(5, "email", "init", FALSE, FALSE),
       Use(7, "id", "write", TRUE, FALSE),
       Use(7, "generateId", "call", TRUE, FALSE),
       Def(10, Method("User", <<UserRef>>, "", FALSE)),
       Use(11, "firstName", "init", FALSE, FALSE),
       Use(11, "lastName", "init", FALSE, FALSE),
       Use(11, "age", "init", FALSE, FALSE),
       Def(16, Method("~User", <<>>, "", FALSE)),
       Use(18, "firstName", "delete", FALSE, FALSE),
       Def(21, Method("getName", <<>>, "std::string", TRUE)),
       Use(22, "firstName", "read", FALSE, TRUE),
       Def(25, Method("getEmail", <<>>, "std::string", TRUE)),
       Use(26, "email", "read", FALSE, TRUE),
       Def(29, Method("getAge", <<>>, "int", TRUE)),
       Use(30, "age", "read", FALSE, TRUE),
       Def(34, Method("setAge", <<"int">>, "void", FALSE)),
       Use(37, "isValid", "write", TRUE, FALSE),
       Use(39, "age", "write", FALSE, FALSE),
       Def(43, Method("getFullName", <<>>, "std::string", TRUE)),
       Use(44, "firstName", "read", FALSE, TRUE),
       Use(44, "lastName", "read", FALSE, TRUE),
       Def(48, Method("createDefaultUser", <<>>, "int", FALSE)),
       Construct(49, "User", FourArgs) >>

MainItems ==
    << Include(1, "<iostream>"),
       Include(2, "<vector>"),
       Include(3, "<memory>"),
       Include(4, "User.h"),
       Include(5, "Database.h"),
       Identifier(10, "undefinedVersion"),
       CopyInit(13, "port", "std::string", "int"),
       Identifier(15, "Database"),
       Identifier(18, "db"),
       DatabaseUse(18, "initialize"),
       Construct(26, "user1", FourArgs),
       Construct(27, "user2", <<Literal, Literal>>),
       Construct(29, "push_back(user1)", <<"User">>),
       Construct(30, "push_back(user2)", <<"User">>),
       Use(34, "getFullName", "call", FALSE, TRUE),
       Use(35, "birthYear", "read", FALSE, TRUE),
       Construct(39, "make_unique<User>", FourArgs),
       Use(41, "getName", "call", FALSE, FALSE) >>

Items(file) == IF file = CppFile THEN CppItems ELSE MainItems

(***************************************************************************)
(* The checks the translation applies to an item.                         *)
(***************************************************************************)
Diag(file, item, name, kind, detail) ==
    [file |-> file, line |-> item.line, name |-> name, kind |-> kind,
     detail |-> detail]

Aspects == {"parameter types", "return type", "const qualifier"}

\* The aspects in which definition d differs from declaration m.
SigDiff(d, m) ==
    { a \in Aspects :
        \/ a = "parameter types" /\ d.params # m.params
        \/ a = "return type" /\ d.ret # m.ret
        \/ a = "const qualifier" /\ d.isConst # m.isConst }

\* An out-of-class definition must match a declaration of the class exactly.
CheckDefinition(h, file, item) ==
    LET d == item.method
        same == { m \in Methods(h) : m.name = d.name }
    IN  IF \E m \in same : SigDiff(d, m) = {} THEN {}
        ELSE IF d \in ImplicitMethods(h)
        THEN { Diag(file, item, d.name, "definition of implicitly-declared member", {}) }
        ELSE IF same # {}
        THEN { Diag(file, item, d.name, "declaration mismatch",
                    { a \in Aspects : \A m \in same : a \in SigDiff(d, m) }) }
        ELSE { Diag(file, item, d.name, "no declaration", {}) }

\* A use of a member name: the name must be declared; the operand of delete
\* must be a pointer; a member function called on a const object must be
\* const-qualified.
CheckUse(h, file, item) ==
    IF ~ Declared(h, item.name)
    THEN { Diag(file, item, item.name, "undeclared member", {}) }
    ELSE IF item.how = "delete" /\ ~ IsPointerType(FieldType(h, item.name))
    THEN { Diag(file, item, item.name, "delete of non-pointer",
                { FieldType(h, item.name) }) }
    ELSE IF /\ item.how = "call" /\ item.onConst
            /\ ~ \E m \in Methods(h) : m.name = item.name /\ m.isConst
    THEN { Diag(file, item, item.name, "discards qualifiers", {}) }
    ELSE {}

\* The implicit conversions between the argument and parameter types that
\* occur at the constructor calls.
Convertible(arg, param) ==
    <<arg, param>> \in { <<Literal, StringRef>>, <<"std::string", StringRef>>,
                         <<"int", "int">>, <<"User", UserRef>>,
                         <<"User rvalue", UserRef>>,
                         <<"User rvalue", UserRvalueRef>> }

Constructors(h) ==
    { m \in Methods(h) \cup ImplicitMethods(h) : m.name = "User" }

\* A constructor is viable for a call when it takes as many parameters as
\* there are arguments (no parameter has a default) and every argument
\* converts to its parameter.
Viable(m, args) ==
    /\ Len(m.params) = Len(args)
    /\ \A i \in 1..Len(args) : Convertible(args[i], m.params[i])

ViableConstructors(h, args) == { m \in Constructors(h) : Viable(m, args) }

CheckConstruct(h, file, item) ==
    IF ViableConstructors(h, item.args) = {}
    THEN { Diag(file, item, item.name, "no matching constructor", {}) }
    ELSE {}

SystemHeaders == {"<iostream>", "<vector>", "<memory>", "<sstream>"}
NoSuchFile == "fatal: no such file"

\* "User.h" is found (as src/User.h beside the including file, or as
\* include/User.h on the include path); "Database.h" is found only where the
\* build supplies it.  An include that is not found is a fatal error.
CheckInclude(d, file, item) ==
    IF \/ item.name \in SystemHeaders \cup {"User.h"}
       \/ item.name = "Database.h" /\ d.found
    THEN {}
    ELSE { Diag(file, item, item.name, NoSuchFile, {}) }

\* The names in scope in main at a line: those the includes declare, main
\* itself, and db once its declaration (line 15) has named a declared type.
ScopeNames(d, line) ==
    {"std", "User", "main"}
      \cup (IF d.found THEN {"Database"} ELSE {})
      \cup (IF d.found /\ line > 15 THEN {"db"} ELSE {})

CheckIdentifier(d, file, item) ==
    IF item.name \in ScopeNames(d, item.line) THEN {}
    ELSE { Diag(file, item, item.name, "undeclared identifier", {}) }

\* A member of Database called on db: the name must be a member of the class
\* (where db itself is undeclared the diagnostic is the identifier's).
CheckDatabaseUse(d, file, item) ==
    IF d.found /\ item.name \notin d.members
    THEN { Diag(file, item, item.name, "undeclared member", {}) }
    ELSE {}

\* std::string is constructible from a string literal or a string, not from
\* an int.
CheckCopyInit(file, item) ==
    IF <<item.from, item.to>> \in { <<Literal, "std::string">>,
                                    <<"std::string", "std::string">>,
                                    <<"int", "int">> }
    THEN {}
    ELSE { Diag(file, item, item.name, "no conversion", {item.from, item.to}) }

Check(h, d, file, item) ==
    CASE item.kind = "include" -> CheckInclude(d, file, item)
      [] item.kind = "definition" -> CheckDefinition(h, file, item)
      [] item.kind = "use" -> CheckUse(h, file, item)
      [] item.kind = "construct" -> CheckConstruct(h, file, item)
      [] item.kind = "identifier" -> CheckIdentifier(d, file, item)
      [] item.kind = "database-use" -> CheckDatabaseUse(d, file, item)
      [] item.kind = "copy-init" -> CheckCopyInit(file, item)

\* The definition whose body holds item i (0: none, the item is in main).
EnclosingDef(file, i) ==
    LET ds == { j \in 1..i : Items(file)[j].kind = "definition" }
    IN  IF ds = {} THEN 0 ELSE CHOOSE j \in ds : \A k \in ds : k <= j

\* The body of a member function whose definition is rejected is not
\* translated: the items in it draw no diagnostic.
Reached(h, file, i) ==
    LET e == EnclosingDef(file, i)
    IN  e \in {0, i} \/ CheckDefinition(h, file, Items(file)[e]) = {}

Translate(h, d, file, i) ==
    IF Reached(h, file, i) THEN Check(h, d, file, Items(file)[i]) ELSE {}

(***************************************************************************)
(* SpecDecl: the two translation units are translated item by item, each  *)
(* in source order, in any interleaving, each against one header.         *)
(***************************************************************************)
UserIdle == objs = <<>> /\ vec = <<>> /\ last = [op |-> "none"] /\ ops = 0
MainIdle ==
    /\ pc = "idle" /\ user1 = [state |-> "none"] /\ user2 = [state |-> "none"]
    /\ users = <<>> /\ loopI = 0 /\ heap = <<>> /\ userPtr = 0 /\ out = <<>>
DeclIdle == posCpp = 0 /\ posMain = 0 /\ diags = {}

\* The translation of a file ends at a fatal error.
Fatal(file) == \E x \in diags : x.file = file /\ x.kind = NoSuchFile

\* The builds the program runs in, as <<header of main.cpp, header of
\* User.cpp>>.  A client compiled against include/User.h calls members that
\* User.cpp compiled against src/User.h does not define.
Builds == { <<IncludeHeader, IncludeHeader>>, <<SrcHeader, SrcHeader>>,
            <<SrcHeader, IncludeHeader>> }

InitDecl ==
    /\ hdr \in Headers
    /\ cppHdr \in Headers
    /\ dbHdr \in DatabaseHeaders
    /\ posCpp = 0
    /\ posMain = 0
    /\ diags = {}
    /\ UserIdle
    /\ MainIdle

TranslateUserCpp ==
    /\ pc = "idle"
    /\ posCpp < Len(CppItems)
    /\ ~ Fatal(CppFile)
    /\ posCpp' = posCpp + 1
    /\ diags' = diags \cup Translate(cppHdr, dbHdr, CppFile, posCpp + 1)
    /\ UNCHANGED <<hdr, cppHdr, dbHdr, posMain>>
    /\ UNCHANGED <<userVars, mainVars>>

TranslateMainCpp ==
    /\ pc = "idle"
    /\ posMain < Len(MainItems)
    /\ ~ Fatal(MainFile)
    /\ posMain' = posMain + 1
    /\ diags' = diags \cup Translate(hdr, dbHdr, MainFile, posMain + 1)
    /\ UNCHANGED <<hdr, cppHdr, dbHdr, posCpp>>
    /\ UNCHANGED <<userVars, mainVars>>

NextDecl == TranslateUserCpp \/ TranslateMainCpp

SpecDecl == InitDecl /\ [][NextDecl]_vars

\* The items translated so far, and the diagnostics issued for one of them.
DoneItems(file) ==
    LET n == IF file = CppFile THEN posCpp ELSE posMain
    IN  { Items(file)[i] : i \in 1..n }
DiagsAt(file, line, name) ==
    { d \in diags : d.file = file /\ d.line = line /\ d.name = name }
DiagKinds(file, line, name) == { d.kind : d \in DiagsAt(file, line, name) }

(***************************************************************************)
(* Claims about the declarations (checked under SpecDecl).                *)
(***************************************************************************)
DoneIdx(file) == 1..(IF file = CppFile THEN posCpp ELSE posMain)
DefinitionsDone == { it \in DoneItems(CppFile) : it.kind = "definition" }
UsesDone(file) == { it \in DoneItems(file) : it.kind = "use" }
UsesDoneIdx(file) == { i \in DoneIdx(file) : Items(file)[i].kind = "use" }
IncludeDecl(name) == CHOOSE m \in IncludeMethods : m.name = name
MismatchDiag(it, aspect) ==
    Diag(CppFile, it, it.method.name, "declaration mismatch", {aspect})

\* C3: translated against include/User.h, the definitions of User.cpp that
\* differ from their declaration are exactly setAge (parameter int, declared
\* float), getFullName (const, declared non-const) and createDefaultUser
\* (returns int, declared User); every other definition draws no diagnostic.
C3_SignatureMismatchesExact ==
    cppHdr = IncludeHeader =>
        \A it \in DefinitionsDone :
            LET d  == it.method
                ds == DiagsAt(CppFile, it.line, d.name)
            IN  CASE d.name = "setAge" ->
                       /\ ds = { MismatchDiag(it, "parameter types") }
                       /\ d.params = <<"int">>
                       /\ IncludeDecl("setAge").params = <<"float">>
                  [] d.name = "getFullName" ->
                       /\ ds = { MismatchDiag(it, "const qualifier") }
                       /\ d.isConst /\ ~ IncludeDecl("getFullName").isConst
                  [] d.name = "createDefaultUser" ->
                       /\ ds = { MismatchDiag(it, "return type") }
                       /\ d.ret = "int"
                       /\ IncludeDecl("createDefaultUser").ret = "User"
                  [] OTHER -> ds = {} /\ d \in IncludeMethods

C3_Witness ==
    /\ cppHdr = IncludeHeader
    /\ posCpp = Len(CppItems)
    /\ { d.name : d \in { x \in diags : x.kind = "declaration mismatch" } }
          = {"setAge", "getFullName", "createDefaultUser"}

\* The constructions of user1 and user2 (main.cpp lines 26 and 27).
LabelledConstructions ==
    { i \in DOMAIN MainItems :
        MainItems[i].kind = "construct" /\ MainItems[i].line \in 25..27 }

\* C4 (as claimed): both constructions of main.cpp lines 26 and 27 match no
\* constructor of User, and draw "no matching constructor" once translated.
C4_BothConstructionsMatchNothing ==
    \A i \in LabelledConstructions :
        LET it == MainItems[i]
        IN  /\ ViableConstructors(hdr, it.args) = {}
            /\ i <= posMain =>
                 "no matching constructor" \in DiagKinds(MainFile, it.line, it.name)

\* C5: every member name User.cpp marks as undefined (id, generateId,
\* isValid) is declared in neither header, and draws "undeclared member"
\* wherever the translation reaches its use; every other member name
\* User.cpp uses (firstName, lastName, age, email) is declared in both
\* headers and draws no such diagnostic.
C5_MarkedNamesUndeclared ==
    \A i \in UsesDoneIdx(CppFile) :
        LET it == CppItems[i]
            undeclared ==
                "undeclared member" \in DiagKinds(CppFile, it.line, it.name)
        IN  IF it.marked
            THEN /\ it.name \in {"id", "generateId", "isValid"}
                 /\ \A h \in Headers : ~ Declared(h, it.name)
                 /\ undeclared <=> Reached(cppHdr, CppFile, i)
            ELSE /\ it.name \in {"firstName", "lastName", "age", "email"}
                 /\ \A h \in Headers : Declared(h, it.name)
                 /\ ~ undeclared

C5_Witness ==
    /\ posCpp = Len(CppItems)
    /\ { CppItems[i].name : i \in { j \in UsesDoneIdx(CppFile) : CppItems[j].marked } }
          = {"id", "generateId", "isValid"}
    /\ { d.name : d \in { x \in diags : x.file = CppFile
                                        /\ x.kind = "undeclared member" } }
          = {"id", "generateId"}

\* The member accesses in the body of main's loop over users.
LoopUses ==
    { i \in DOMAIN MainItems :
        MainItems[i].kind = "use" /\ MainItems[i].line \in 33..36 }

\* C6: the member accesses of main's loop over users are getFullName and
\* birthYear; src/User.h declares neither, and include/User.h does not
\* declare birthYear.  Where the translation of main.cpp reaches the loop
\* (it ends at line 5 unless a Database.h is supplied) each access to a
\* member the header in use lacks draws "undeclared member".
C6_LoopMembersMissing ==
    /\ { MainItems[i].name : i \in LoopUses } = {"getFullName", "birthYear"}
    /\ \A i \in LoopUses :
        LET it == MainItems[i]
            undeclared ==
                "undeclared member" \in DiagKinds(MainFile, it.line, it.name)
        IN  /\ ~ Declared(SrcHeader, it.name)
            /\ it.name = "birthYear" => ~ Declared(IncludeHeader, it.name)
            /\ undeclared => i <= posMain
            /\ i <= posMain =>
                 /\ hdr = SrcHeader => undeclared
                 /\ it.name = "birthYear" => undeclared

C6_Witness ==
    /\ hdr = SrcHeader
    /\ \A i \in LoopUses :
         /\ i <= posMain
         /\ "undeclared member"
               \in DiagKinds(MainFile, MainItems[i].line, MainItems[i].name)
    /\ { d.name : d \in { x \in diags : x.file = MainFile
                                        /\ x.kind = "undeclared member" } }
          = {"getFullName", "birthYear"}

DeleteUsesIdx == { i \in UsesDoneIdx(CppFile) : CppItems[i].how = "delete" }

\* C7: the delete in the destructor is applied to firstName, a std::string
\* value in both headers; no member of User, in either header, has a pointer
\* type.  Where the destructor's body is translated (against include/User.h,
\* which declares the destructor) the delete draws "delete of non-pointer".
C7_DestructorDeletesNonPointer ==
    /\ \A i \in DeleteUsesIdx :
        LET it == CppItems[i]
        IN  /\ it.name = "firstName" /\ it.line = 18
            /\ CppItems[EnclosingDef(CppFile, i)].method = Destructor
            /\ Reached(cppHdr, CppFile, i) <=> cppHdr = IncludeHeader
            /\ DiagsAt(CppFile, it.line, it.name)
                 = IF cppHdr = IncludeHeader
                   THEN { Diag(CppFile, it, "firstName", "delete of non-pointer",
                               {"std::string"}) }
                   ELSE {}
    /\ \A h \in Headers :
        /\ FieldType(h, "firstName") = "std::string"
        /\ \A f \in Fields(h) : ~ IsPointerType(f.type)

C7_Witness ==
    /\ DeleteUsesIdx # {}
    /\ \E d \in diags : d.kind = "delete of non-pointer" /\ d.line = 18

(***************************************************************************)
(* The operations of User, as User.cpp defines them.  An object is its    *)
(* four declared members plus the writes its code makes to names that are *)
(* no member of the class (undeclared: a set of <<name, value>>).         *)
(***************************************************************************)
MaxAge == 1
MaxOps == 3

FirstNames == {"John"}
LastNames == {"Doe"}
Emails == {"", "invalid@email"}
Ages == -MaxAge..MaxAge

\* User::User(const std::string&, const std::string&, int, const std::string&)
Ctor4(first, lastN, userAge, userEmail) ==
    [firstName |-> first, lastName |-> lastN, age |-> userAge,
     email |-> userEmail, undeclared |-> {<<"id", "generateId()">>}]

\* A copy constructor that copies email too.
CopyCtorWithEmail(other) ==
    [firstName |-> other.firstName, lastName |-> other.lastName,
     age |-> other.age, email |-> other.email, undeclared |-> {}]

\* User::User(const User&): email has no initializer and is default-constructed.
CopyCtor(other) ==
    [firstName |-> other.firstName, lastName |-> other.lastName,
     age |-> other.age, email |-> "", undeclared |-> {}]

getName(u) == u.firstName
getEmail(u) == u.email
getAge(u) == u.age

\* A setAge that rejects a negative age.
setAgeRejectNegative(u, newAge) ==
    IF newAge < 0
    THEN [u EXCEPT !.undeclared =
              { w \in @ : w[1] # "isValid" } \cup {<<"isValid", "false">>}]
    ELSE [u EXCEPT !.age = newAge]

\* void User::setAge(int newAge)
setAge(u, newAge) ==
    LET v == IF newAge < 0
             THEN [u EXCEPT !.undeclared =
                       { w \in @ : w[1] # "isValid" } \cup {<<"isValid", "false">>}]
             ELSE u
    IN  [v EXCEPT !.age = newAge]

getFullName(u) == u.firstName \o " " \o u.lastName

\* The implicitly-defined copy and move constructors initialize every
\* declared member from the source's.
ImplicitCopy(other) == [other EXCEPT !.undeclared = {}]
ImplicitMove(other) == [other EXCEPT !.undeclared = {}]

\* The implicitly-defined copy and move assignment operators assign every
\* declared member of the target from the source's.
ImplicitAssign(target, other) == [other EXCEPT !.undeclared = target.undeclared]

\* A User whose members were moved from: the strings are left empty.
MovedFrom(u) == [u EXCEPT !.firstName = "", !.lastName = "", !.email = ""]

\* What copy-constructing from x can give in a client compiled against h,
\* with User.cpp compiled against c.  A class that declares the copy
\* constructor gets the one User.cpp defines.  A class that does not gets the
\* implicit one; when User.cpp then defines one all the same (compiled
\* against the other header) the program has two definitions of the same
\* function and runs either.
CopyConstruct(h, c, x) ==
    IF CopyConstructor \in Methods(h) THEN { CopyCtor(x) }
    ELSE { ImplicitCopy(x) }
           \cup (IF CopyConstructor \in Methods(c) THEN { CopyCtor(x) } ELSE {})

\* What constructing from an rvalue x can give: the move constructor's result
\* where the class has one, a copy otherwise.
MoveConstruct(h, c, x) ==
    IF MoveConstructor \in Constructors(h) THEN { ImplicitMove(x) }
    ELSE CopyConstruct(h, c, x)

\* static User User::createDefaultUser(), with the return type the class
\* declares (the definition returns int and is rejected): the object the
\* caller receives is the one the return statement constructs, or, where the
\* build does not elide the temporary, a copy or move of it.
createDefaultUser(h, c) ==
    LET d == Ctor4("Default", "User", 0, "default@example.com")
    IN  {d} \cup MoveConstruct(h, c, d)

\* std::vector<User> moves its elements to reallocated storage when User has
\* a (non-throwing) move constructor, and copies them otherwise.
Relocate(h, v) ==
    IF MoveConstructor \in Constructors(h)
    THEN [i \in DOMAIN v |-> ImplicitMove(v[i])]
    ELSE [i \in DOMAIN v |-> CopyCtor(v[i])]

\* std::vector<User>::push_back(const User&): the new element is
\* copy-constructed from x, after the old elements were relocated or not.
\* The vectors that can result.
VectorPushBack(h, c, v, x) ==
    { Append(w, e) : w \in {v, Relocate(h, v)}, e \in CopyConstruct(h, c, x) }

(***************************************************************************)
(* SpecUser: a client constructs, copies, modifies, stores and destroys   *)
(* User objects.  last records the operation just applied.                *)
(***************************************************************************)
InitUser ==
    /\ \E b \in Builds : hdr = b[1] /\ cppHdr = b[2]
    /\ dbHdr = NoDatabase
    /\ objs = <<>>
    /\ vec = <<>>
    /\ last = [op |-> "none"]
    /\ ops = 0
    /\ DeclIdle
    /\ MainIdle

\* The client applies one more operation.
Step == pc = "idle" /\ ops < MaxOps /\ ops' = ops + 1

NewUser ==
    /\ Step
    /\ \E f \in FirstNames, l \in LastNames, a \in Ages, e \in Emails :
         /\ objs' = Append(objs, Ctor4(f, l, a, e))
         /\ last' = [op |-> "construct", i |-> Len(objs) + 1]
    /\ UNCHANGED vec
    /\ UNCHANGED <<declVars, mainVars>>

CopyUser ==
    /\ Step
    /\ \E i \in DOMAIN objs :
         /\ \E e \in CopyConstruct(hdr, cppHdr, objs[i]) : objs' = Append(objs, e)
         /\ last' = [op |-> "copy", src |-> objs[i], i |-> Len(objs) + 1]
    /\ UNCHANGED vec
    /\ UNCHANGED <<declVars, mainVars>>

SetAge ==
    /\ Step
    /\ \E i \in DOMAIN objs, n \in Ages :
         /\ objs' = [objs EXCEPT ![i] = setAge(@, n)]
         /\ last' = [op |-> "setAge", i |-> i, arg |-> n, before |-> objs[i]]
    /\ UNCHANGED vec
    /\ UNCHANGED <<declVars, mainVars>>

PushBack ==
    /\ Step
    /\ \E i \in DOMAIN objs :
         /\ vec' \in VectorPushBack(hdr, cppHdr, vec, objs[i])
         /\ last' = [op |-> "push_back", src |-> objs[i]]
    /\ UNCHANGED objs
    /\ UNCHANGED <<declVars, mainVars>>

\* User d = User::createDefaultUser();  in a client whose header declares it.
NewDefaultUser ==
    /\ Step
    /\ Declared(hdr, "createDefaultUser")
    /\ \E d \in createDefaultUser(hdr, cppHdr) : objs' = Append(objs, d)
    /\ last' = [op |-> "createDefaultUser", i |-> Len(objs) + 1]
    /\ UNCHANGED vec
    /\ UNCHANGED <<declVars, mainVars>>

\* User b(std::move(a));
MoveUser ==
    /\ Step
    /\ \E i \in DOMAIN objs :
         /\ \E e \in MoveConstruct(hdr, cppHdr, objs[i]) :
              objs' = Append(IF MoveConstructor \in Constructors(hdr)
                             THEN [objs EXCEPT ![i] = MovedFrom(@)]
                             ELSE objs, e)
         /\ last' = [op |-> "move", src |-> objs[i], i |-> Len(objs) + 1]
    /\ UNCHANGED vec
    /\ UNCHANGED <<declVars, mainVars>>

\* a = b;  the implicit copy assignment, in every build.
AssignUser ==
    /\ Step
    /\ \E i \in DOMAIN objs, j \in DOMAIN objs :
         /\ i # j
         /\ objs' = [objs EXCEPT ![i] = ImplicitAssign(@, objs[j])]
         /\ last' = [op |-> "assign", src |-> objs[j], i |-> i]
    /\ UNCHANGED vec
    /\ UNCHANGED <<declVars, mainVars>>

\* a = std::move(b);  the implicit move assignment where the class has one,
\* the copy assignment otherwise.
MoveAssignUser ==
    /\ Step
    /\ \E i \in DOMAIN objs, j \in DOMAIN objs :
         /\ i # j
         /\ objs' = IF MoveAssignment \in ImplicitMethods(hdr)
                    THEN [objs EXCEPT ![i] = ImplicitAssign(@, objs[j]),
                                      ![j] = MovedFrom(@)]
                    ELSE [objs EXCEPT ![i] = ImplicitAssign(@, objs[j])]
         /\ last' = [op |-> "move-assign", src |-> objs[j], i |-> i]
    /\ UNCHANGED vec
    /\ UNCHANGED <<declVars, mainVars>>

\* The object constructed last goes out of scope.
DestroyUser ==
    /\ Step
    /\ objs # <<>>
    /\ objs' = SubSeq(objs, 1, Len(objs) - 1)
    /\ last' = [op |-> "destroy"]
    /\ UNCHANGED vec
    /\ UNCHANGED <<declVars, mainVars>>

NextUser ==
    \/ NewUser \/ NewDefaultUser \/ CopyUser \/ MoveUser \/ AssignUser
    \/ MoveAssignUser \/ SetAge \/ PushBack \/ DestroyUser

SpecUser == InitUser /\ [][NextUser]_vars

SameNameAndAge(a, b) ==
    /\ a.firstName = b.firstName
    /\ a.lastName = b.lastName
    /\ a.age = b.age

\* The object the last copy or push_back made.
LastCopy == IF last.op = "copy" THEN objs[last.i] ELSE vec[Len(vec)]
Copied == last.op \in {"copy", "push_back"}

\* C2 (as claimed): every copy of a User, the elements push_back stores
\* included, has the source's firstName, lastName and age and an empty email.
C2_EveryCopyDropsEmail ==
    /\ Copied =>
         /\ SameNameAndAge(LastCopy, last.src)
         /\ getEmail(LastCopy) = ""
         /\ last.src.email # "" => getEmail(LastCopy) # getEmail(last.src)
    /\ \A i \in DOMAIN vec : getEmail(vec[i]) = ""

\* C2 (amended): the copy constructor User.cpp defines gives, for every
\* source, the source's firstName, lastName and age and an empty email.  A
\* copy, or an element push_back stores, is made by it when the client is
\* compiled against include/User.h, which declares it: the email is then
\* empty.  Compiled against src/User.h, which declares none, the client copies
\* with the implicit copy constructor and the email is the source's, unless
\* User.cpp (compiled against include/User.h) defines its own as well: then
\* the email is the source's or empty.  A construction from an rvalue is a
\* copy by User.cpp's copy constructor too where the client is compiled
\* against include/User.h, which leaves the class without a move constructor.
C2_CopyDropsEmailWhereDeclared ==
    /\ Copied =>
         /\ SameNameAndAge(LastCopy, last.src)
         /\ SameNameAndAge(CopyCtor(last.src), last.src)
         /\ getEmail(CopyCtor(last.src)) = ""
         /\ hdr = IncludeHeader =>
              /\ LastCopy = CopyCtor(last.src)
              /\ last.src.email # "" => getEmail(LastCopy) # getEmail(last.src)
         /\ (hdr = SrcHeader /\ cppHdr = SrcHeader) =>
              getEmail(LastCopy) = getEmail(last.src)
         /\ (hdr = SrcHeader /\ cppHdr = IncludeHeader) =>
              getEmail(LastCopy) \in {"", getEmail(last.src)}
    /\ (last.op = "move" /\ hdr = IncludeHeader) =>
         objs[last.i] = CopyCtor(last.src)
    /\ hdr = IncludeHeader => \A i \in DOMAIN vec : getEmail(vec[i]) = ""

C2_Witness ==
    /\ hdr = IncludeHeader
    /\ last.op = "push_back"
    /\ last.src.email = "invalid@email"
    /\ getEmail(vec[Len(vec)]) = ""
    /\ Len(vec) = 2

\* C9: after setAge(newAge), getAge() returns newAge for every int newAge,
\* negative ones included; firstName, lastName and email are unchanged, and
\* the only other effect, for a negative newAge, is the write to isValid.
C9_SetAgeUnconditional ==
    last.op = "setAge" =>
        LET u == objs[last.i]
            b == last.before
        IN  /\ getAge(u) = last.arg
            /\ u.firstName = b.firstName
            /\ u.lastName = b.lastName
            /\ u.email = b.email
            /\ { w \in u.undeclared : w[1] # "isValid" }
                 = { w \in b.undeclared : w[1] # "isValid" }
            /\ last.arg < 0 => <<"isValid", "false">> \in u.undeclared
            /\ last.arg >= 0 => u.undeclared = b.undeclared

C9_Witness ==
    /\ last.op = "setAge"
    /\ last.arg < 0
    /\ last.before.age >= 0
    /\ getAge(objs[last.i]) = last.arg

(***************************************************************************)
(* Spec: the execution of main().  pc names the line of the statement     *)
(* about to run.  Where the source names something that is not declared   *)
(* (undefinedVersion, the missing constructor arguments of user2,         *)
(* birthYear) its value is any value of the type the context asks for;    *)
(* where the behaviour is undefined (the access through userPtr after the *)
(* delete, the second delete) every outcome a build can show is a step.   *)
(* main runs in a build that supplies a Database with initialize().       *)
(***************************************************************************)
Versions == {"", "1.0"}
Garbage == {""}

NoLocal == [state |-> "none"]
Live(u) == [state |-> "live", obj |-> u]
Destroyed(l) == [l EXCEPT !.state = "destroyed"]

Line(n, text) == [line |-> n, text |-> text]

\* new User(...): a fresh object on the free store.
NewObject(u) == [obj |-> u, frees |-> 0, usedAfterFree |-> 0]
\* A delete that leaves the object alone.
DeleteObjectLeaves(cell) == cell
\* delete p: destroys the object and frees its storage.
DeleteObject(cell) == [cell EXCEPT !.frees = @ + 1]
\* An access to the object through a pointer.
AccessObject(cell) ==
    IF cell.frees > 0 THEN [cell EXCEPT !.usedAfterFree = @ + 1] ELSE cell
\* std::unique_ptr::release() returns the stored pointer and stores null.
StoredAfterRelease(p) == 0
\* std::unique_ptr::get() returns the stored pointer and leaves it stored.
StoredAfterGet(p) == p

Init ==
    /\ \E b \in Builds : hdr = b[1] /\ cppHdr = b[2]
    /\ dbHdr = Database({"initialize"})
    /\ pc = "l10"
    /\ user1 = NoLocal
    /\ user2 = NoLocal
    /\ users = <<>>
    /\ loopI = 0
    /\ heap = <<>>
    /\ userPtr = 0
    /\ out = <<>>
    /\ DeclIdle
    /\ UserIdle

\* std::cout << "Starting application: " << undefinedVersion << std::endl;
Stmt10 ==
    /\ pc = "l10"
    /\ \E v \in Versions :
         out' = Append(out, Line(10, <<"Starting application: ", v>>))
    /\ pc' = "l13"
    /\ UNCHANGED <<user1, user2, users, loopI, heap, userPtr>>
    /\ UNCHANGED <<declVars, userVars>>

\* std::string port = 8080;  Database db;
Stmt13 ==
    /\ pc = "l13"
    /\ pc' = "l18"
    /\ UNCHANGED <<user1, user2, users, loopI, heap, userPtr, out>>
    /\ UNCHANGED <<declVars, userVars>>

\* if (!db.initialize()) { std::cerr << ...; return 1; }
Stmt18 ==
    /\ pc = "l18"
    /\ \E ok \in BOOLEAN :
         IF ok
         THEN pc' = "l23" /\ out' = out
         ELSE /\ pc' = "exit1"
              /\ out' = Append(out, Line(19, <<"Failed to initialize database">>))
    /\ UNCHANGED <<user1, user2, users, loopI, heap, userPtr>>
    /\ UNCHANGED <<declVars, userVars>>

\* std::vector<User> users;
Stmt23 ==
    /\ pc = "l23"
    /\ users' = <<>>
    /\ pc' = "l26"
    /\ UNCHANGED <<user1, user2, loopI, heap, userPtr, out>>
    /\ UNCHANGED <<declVars, userVars>>

\* User user1("John", "Doe", 25, "invalid@email");
Stmt26 ==
    /\ pc = "l26"
    /\ user1' = Live(Ctor4("John", "Doe", 25, "invalid@email"))
    /\ pc' = "l27"
    /\ UNCHANGED <<user2, users, loopI, heap, userPtr, out>>
    /\ UNCHANGED <<declVars, userVars>>

\* User user2("Jane", "Smith");
Stmt27 ==
    /\ pc = "l27"
    /\ \E a \in Ages, e \in Emails :
         user2' = Live(Ctor4("Jane", "Smith", a, e))
    /\ pc' = "l29"
    /\ UNCHANGED <<user1, users, loopI, heap, userPtr, out>>
    /\ UNCHANGED <<declVars, userVars>>

\* users.push_back(user1);
Stmt29 ==
    /\ pc = "l29"
    /\ users' \in VectorPushBack(hdr, cppHdr, users, user1.obj)
    /\ pc' = "l30"
    /\ UNCHANGED <<user1, user2, loopI, heap, userPtr, out>>
    /\ UNCHANGED <<declVars, userVars>>

\* users.push_back(user2);
Stmt30 ==
    /\ pc = "l30"
    /\ users' \in VectorPushBack(hdr, cppHdr, users, user2.obj)
    /\ loopI' = 1
    /\ pc' = "l33"
    /\ UNCHANGED <<user1, user2, heap, userPtr, out>>
    /\ UNCHANGED <<declVars, userVars>>

\* for (const auto& user : users) std::cout << "User: " << user.getFullName()
\*     << ", Age: " << user.birthYear << std::endl;
Stmt33 ==
    /\ pc = "l33"
    /\ IF loopI <= Len(users)
       THEN /\ \E y \in Ages :
                 out' = Append(out, Line(34, <<"User: ", getFullName(users[loopI]),
                                               ", Age: ", y>>))
            /\ loopI' = loopI + 1
            /\ pc' = "l33"
       ELSE /\ pc' = "l39"
            /\ UNCHANGED <<loopI, out>>
    /\ UNCHANGED <<user1, user2, users, heap, userPtr>>
    /\ UNCHANGED <<declVars, userVars>>

\* auto userPtr = std::make_unique<User>("Test", "User", 30, "test@example.com");
Stmt39 ==
    /\ pc = "l39"
    /\ heap' = Append(heap, NewObject(Ctor4("Test", "User", 30, "test@example.com")))
    /\ userPtr' = Len(heap) + 1
    /\ pc' = "l40"
    /\ UNCHANGED <<user1, user2, users, loopI, out>>
    /\ UNCHANGED <<declVars, userVars>>

\* delete userPtr.get();
Stmt40 ==
    /\ pc = "l40"
    /\ heap' = [heap EXCEPT ![userPtr] = DeleteObject(@)]
    /\ userPtr' = StoredAfterGet(userPtr)
    /\ pc' = "l41"
    /\ UNCHANGED <<user1, user2, users, loopI, out>>
    /\ UNCHANGED <<declVars, userVars>>

\* std::cout << userPtr->getName() << std::endl;
\* On a deleted object the behaviour is undefined: the run faults, or prints
\* what the freed storage still holds, or prints something else.
Stmt41 ==
    /\ pc = "l41"
    /\ userPtr \in DOMAIN heap
    /\ heap' = [heap EXCEPT ![userPtr] = AccessObject(@)]
    /\ IF heap[userPtr].frees = 0
       THEN /\ out' = Append(out, Line(41, <<getName(heap[userPtr].obj)>>))
            /\ pc' = "l43"
       ELSE \/ pc' = "crash41" /\ out' = out
            \/ /\ \E t \in {getName(heap[userPtr].obj)} \cup Garbage :
                    out' = Append(out, Line(41, <<t>>))
               /\ pc' = "l43"
    /\ UNCHANGED <<user1, user2, users, loopI, userPtr>>
    /\ UNCHANGED <<declVars, userVars>>

\* return 0;  The locals are destroyed in reverse order of declaration:
\* userPtr first (its destructor deletes the stored pointer unless null), then
\* user2, user1 and users.  Deleting an object a second time is undefined: the
\* run aborts in the allocator, or goes on.
Stmt43 ==
    /\ pc = "l43"
    /\ heap' = IF userPtr = 0 THEN heap
               ELSE [heap EXCEPT ![userPtr] = DeleteObject(@)]
    /\ \/ /\ pc' = "exit0"
          /\ user2' = Destroyed(user2)
          /\ user1' = Destroyed(user1)
          /\ users' = <<>>
       \/ /\ userPtr # 0 /\ heap[userPtr].frees > 0
          /\ pc' = "abort44"
          /\ UNCHANGED <<user1, user2, users>>
    /\ UNCHANGED <<loopI, userPtr, out>>
    /\ UNCHANGED <<declVars, userVars>>

Next ==
    \/ Stmt10 \/ Stmt13 \/ Stmt18 \/ Stmt23 \/ Stmt26 \/ Stmt27 \/ Stmt29
    \/ Stmt30 \/ Stmt33 \/ Stmt39 \/ Stmt40 \/ Stmt41 \/ Stmt43

Spec == Init /\ [][Next]_vars

\* main has gone past the access of line 41 (it faulted in it or went on).
PastLine41 == pc \in {"crash41", "l43", "exit0", "abort44"}
\* main has executed return 0 (the destruction of its locals ended or aborted).
Returned0 == pc \in {"exit0", "abort44"}

\* C1: when db.initialize() succeeds, the object userPtr owns is deleted by
\* line 40 before line 41 dereferences it: at line 41 the object about to be
\* accessed is already deleted, and past line 41 a deleted object has been
\* accessed.  The failing path allocates nothing.
C1_UseAfterDelete ==
    /\ pc = "l41" =>
         /\ userPtr \in DOMAIN heap
         /\ heap[userPtr].frees = 1
         /\ heap[userPtr].usedAfterFree = 0
    /\ PastLine41 =>
         /\ userPtr \in DOMAIN heap
         /\ heap[userPtr].usedAfterFree = 1
    /\ pc = "exit1" => heap = <<>>

C1_Witness ==
    /\ pc = "l43"
    /\ heap[userPtr].frees = 1
    /\ heap[userPtr].usedAfterFree = 1

\* C8: delete userPtr.get() leaves userPtr holding the address it held, so
\* once return 0 has run the one object on the free store has been deleted
\* exactly twice; before that it has been deleted at most once.
C8_DoubleDelete ==
    /\ pc \in {"l41", "l43", "crash41"} =>
         /\ userPtr = 1 /\ Len(heap) = 1
         /\ heap[userPtr].frees = 1
    /\ Returned0 =>
         /\ userPtr = 1 /\ Len(heap) = 1
         /\ heap[userPtr].frees = 2
    /\ \A a \in DOMAIN heap : heap[a].frees <= 2

C8_Witness ==
    /\ pc = "exit0"
    /\ userPtr = 1
    /\ heap[1].frees = 2

\* The elements main stores in users are copies of user1 and user2: made by
\* User.cpp's copy constructor, with an empty email, when main.cpp is compiled
\* against include/User.h; with the source's email when every file is compiled
\* against src/User.h.
MainUsersAreCopies ==
    \A i \in DOMAIN users :
        LET src == IF i = 1 THEN user1.obj ELSE user2.obj
        IN  /\ SameNameAndAge(users[i], src)
            /\ hdr = IncludeHeader => getEmail(users[i]) = ""
            /\ (hdr = SrcHeader /\ cppHdr = SrcHeader) =>
                 getEmail(users[i]) = getEmail(src)
            /\ getEmail(users[i]) \in {"", getEmail(src)}

\* Every element of main's users has an empty email (fails: in the builds
\* where main.cpp is compiled against src/User.h users[1] can keep user1's).
MainUsersEmailEmpty == \A i \in DOMAIN users : getEmail(users[i]) = ""

====
